---- MODULE Spec2Model ----
(***************************************************************************)
(* Model of the UL teacher helper: Module (course unit) and Assessment     *)
(* objects, the directory tree they scaffold, and the process-wide logging *)
(* configuration that backs the "already executed" guard.                  *)
(*                                                                         *)
(* Text is a sequence of tokens; the concatenation of the tokens is the    *)
(* Python string.  A file-system name is such a text, a path is a sequence *)
(* of names.                                                               *)
(***************************************************************************)
EXTENDS Integers, Sequences, FiniteSets, TLC

VARIABLES dirs,        \* set of paths that are directories
          files,       \* function: path of a regular file -> its text
          rootHandler, \* handler of the logging root logger
          rootLevel,   \* level of the logging root logger
          objs,        \* Module objects of the calling script (or Null)
          asmt,        \* the Assessment object of the calling script (or Null)
          last,        \* outcome of the most recent call
          calls,       \* number of calls made so far
          recorded,    \* history: <<log path, operation>> markers emitted to a file
          unitOf,      \* history: per object, <provisional root>/{code} {semester} {year}
          structuredUnits, \* history: units for which Module.structure returned normally after scaffolding
          completed,   \* history: <<root of the entity, operation>> of every call that returned normally after its work
          thr          \* per caller, the position inside a call that is modelled statement by statement

vars == <<dirs, files, rootHandler, rootLevel, objs, asmt, last, calls, recorded, unitOf,
          structuredUnits, completed, thr>>

----------------------------------------------------------------------------
(* Bounds *)

NumObjs == 2
MaxCalls == 3
MaxDepth == 3
MaxWeeks == 2
MaxLines == 4

----------------------------------------------------------------------------
(* Inputs *)

Null == [kind |-> "null"]

Cwd == << <<"cwd">> >>

Now == "2023-09-01 09:00:00.000000"

Objs == 1..NumObjs

FirstCode == <<"PS1">>
OtherCode == <<"PS2">>
Codes == { FirstCode, OtherCode }

ModName == <<"N">>
Semester == <<"AUT">>
Year == <<"2023">>
Leader == <<"L">>

DefaultSubDirs == << <<"Teaching Material">>, <<"Assessments">>, <<"Module Documents">> >>

\* a directory name that reads like the marker of another operation
MarkerLikeName == <<"'", "teaching_structure", "'", " method deployed on">>

SubDirChoices == { DefaultSubDirs,
                   << <<"Module Documents">>, MarkerLikeName >>,
                   << <<"A">>, <<"A">> >> }

OpNames == {"structure", "teaching_structure", "copy_documents", "graders_list"}

\* files outside the unit tree that a caller may hand to copy_documents
Ext1 == << <<"ext1">> >>
Ext2 == << <<"ext2">> >>
DocA1 == Ext1 \o << <<"a.txt">> >>
DocA2 == Ext2 \o << <<"a.txt">> >>
DocB1 == Ext1 \o << <<"b.txt">> >>
ExtDocs == {DocA1, DocA2, DocB1}
ExtFiles == (DocA1 :> <<"v1">>) @@ (DocA2 :> <<"v2">>) @@ (DocB1 :> <<"w1">>)

\* the documents argument: one path, or a list of paths
DocumentArgs == { [isPath |-> TRUE, val |-> DocA1] }
                \cup { [isPath |-> FALSE, val |-> l] :
                         l \in { <<>>, <<DocA1>>, <<DocA2>>, <<DocB1, DocA2>>, <<DocA1, DocA2>> } }

\* lines a user may type at the confirmation prompt, one character per token
Answers == { <<"y">>, <<"Y">>, <<" ", "y", " ">>, <<"n">>, <<>>, <<" ">>, <<"y", "e", "s">> }

WeekChoices == (0 - 1)..MaxWeeks
\* topic lists of every length up to MaxWeeks, neighbouring topics differing
TopicList(k) == [i \in 1..k |-> IF i % 2 = 1 THEN <<"Intro">> ELSE <<"Stats">>]
\* the same topics after a first week of its own, so that a later call can
\* meet an existing folder in its second week only
AltTopicList(k) == [i \in 1..k |-> IF i = 1 THEN <<"Recap">> ELSE TopicList(k)[i]]
TopicLists == { TopicList(k) : k \in 0..MaxWeeks } \cup { AltTopicList(k) : k \in 2..MaxWeeks }

GraderLists == { <<>>, << <<"Ann">>, <<"Bob">> >>, << <<"Bob">>, <<"Bob">> >> }

AssessmentTypes == { <<"Exam">> }
AssessmentNames == { <<"Midterm">> }
DueDate == <<"2023-12-01">>
Percentage == <<"40.0">>

----------------------------------------------------------------------------
(* Text and path helpers *)

RECURSIVE Join(_, _)
Join(parts, sep) ==
    IF parts = <<>> THEN <<>>
    ELSE IF Len(parts) = 1 THEN parts[1]
    ELSE parts[1] \o sep \o Join(Tail(parts), sep)

IsSubstring(pat, text) ==
    \E i \in 0..(Len(text) - Len(pat)) : \A j \in 1..Len(pat) : text[i + j] = pat[j]

Exists(d, f, p) == p \in d \/ p \in DOMAIN f

\* every proper prefix of p down to the first component (mkdir parents=True)
Parents(p) == { SubSeq(p, 1, k) : k \in 1..(Len(p) - 1) }

Children(d, p) == { q \in d : Len(q) = Len(p) + 1 /\ SubSeq(q, 1, Len(p)) = p }

LogPath(root) == root \o << <<"module_log.txt">> >>

----------------------------------------------------------------------------
(* logging: the root logger is one per process *)

NoHandler == [kind |-> "none", path |-> <<>>]
StderrHandler == [kind |-> "stderr", path |-> <<>>]
FileHandler(p) == [kind |-> "file", path |-> p]

\* logging.basicConfig(filename=log_path, level=logging.INFO):
\* does nothing when the root logger already has a handler
BasicConfig(lg, filename) ==
    IF lg.handler.kind = "none"
    THEN [handler |-> FileHandler(filename), level |-> "INFO",
          files   |-> IF filename \in DOMAIN lg.files THEN lg.files
                      ELSE (filename :> <<>>) @@ lg.files]
    ELSE lg

\* logging.info(msg): installs a stderr handler when there is none (level
\* stays WARNING), then emits the record if INFO is enabled
LoggingInfo(lg, msg) ==
    LET h == IF lg.handler.kind = "none" THEN StderrHandler ELSE lg.handler
        line == <<"INFO:root:">> \o msg \o <<"\n">>
    IN  [handler |-> h, level |-> lg.level,
         files   |-> IF lg.level = "INFO" /\ h.kind = "file"
                     THEN [lg.files EXCEPT ![h.path] = @ \o line]
                     ELSE lg.files]

\* the history of markers that reached a log file
Emitted(lg, op) ==
    IF lg.level = "INFO" /\ lg.handler.kind = "file" THEN {<<lg.handler.path, op>>} ELSE {}

DeployedMsg(method_name) == <<"'", method_name, "'", " method deployed on", " ", Now>>

----------------------------------------------------------------------------
(* Module *)

MarkerPattern(method_name) == <<"'", method_name, "'", " method deployed on">>

CheckMethodExecution_Never(f, root, method_name) == FALSE

\* _check_method_execution: read <root>/module_log.txt, search for the marker
CheckMethodExecution(f, root, method_name) ==
    LET log_path == LogPath(root)
    IN  IF log_path \in DOMAIN f
        THEN IsSubstring(MarkerPattern(method_name), f[log_path])
        ELSE FALSE

\* Module.__init__(self, name, code, year, semester, leader, root=cwd, ...)
ModuleInit(args) ==
    IF Len(args) < 5
    THEN [err |-> "TypeError", obj |-> Null]
    ELSE [err |-> "none",
          obj |-> [kind |-> "Module", name |-> args[1], code |-> args[2], year |-> args[3],
                   semester |-> args[4], leader |-> args[5],
                   root |-> IF Len(args) >= 6 THEN args[6] ELSE Cwd]]

UnitDirName(self) == self.code \o <<" ">> \o self.semester \o <<" ">> \o self.year

MkRoot_ExistOk(d, f, new_root) ==
    [dirs |-> d \cup {new_root} \cup Parents(new_root), err |-> "none"]

\* self.root.mkdir(parents=True, exist_ok=False)
MkRoot(d, f, new_root) ==
    IF Exists(d, f, new_root) THEN [dirs |-> d, err |-> "FileExistsError"]
    ELSE [dirs |-> d \cup {new_root} \cup Parents(new_root), err |-> "none"]

RECURSIVE MkSubDirs(_, _, _, _)
MkSubDirs_Rollback(d, f, root, sub_dirs) ==
    IF sub_dirs = <<>> THEN [dirs |-> d, err |-> "none"]
    ELSE LET p == root \o <<Head(sub_dirs)>>
         IN  IF Exists(d, f, p) THEN [dirs |-> d \ Children(d, root), err |-> "FileExistsError"]
             ELSE MkSubDirs(d \cup {p}, f, root, Tail(sub_dirs))

\* for sub_dir in sub_dirs: (root / sub_dir).mkdir(parents=True, exist_ok=False)
MkSubDirs(d, f, root, sub_dirs) ==
    IF sub_dirs = <<>> THEN [dirs |-> d, err |-> "none"]
    ELSE LET p == root \o <<Head(sub_dirs)>>
         IN  IF Exists(d, f, p) THEN [dirs |-> d, err |-> "FileExistsError"]
             ELSE MkSubDirs(d \cup {p}, f, root, Tail(sub_dirs))

StructureCreatedMsg(self, sub_dirs) ==
    <<"Module ">> \o self.name \o <<" ">> \o self.code \o <<" created at ", Now,
      ":\nCreated Sub_directories:\n">> \o Join(sub_dirs, <<"\n\t">>)

\* a caller that is not inside a concurrent structure call
NoThread == [pc |-> "none", sub_dirs |-> <<>>, idx |-> 0, sawNoUnit |-> FALSE]

Outcome(op, o, res) ==
    [op |-> op, obj |-> o, res |-> res, prompts |-> 0, existing |-> <<>>, ret |-> <<>>]

\* m = Module(name, code, year, semester, leader, root), the root given being
\* the working directory or the root the first Module object holds
New(o, code, nested) ==
    /\ calls < MaxCalls
    /\ thr[o].pc = "none"
    /\ nested => objs[1] # Null
    /\ LET root == IF nested THEN objs[1].root ELSE Cwd
           r == ModuleInit(<<ModName, code, Year, Semester, Leader, root>>)
       IN  /\ objs' = [objs EXCEPT ![o] = r.obj]
           /\ last' = Outcome("Module", o, r.err)
           /\ unitOf' = [unitOf EXCEPT ![o] = r.obj.root \o <<UnitDirName(r.obj)>>]
    /\ calls' = calls + 1
    /\ UNCHANGED <<dirs, files, rootHandler, rootLevel, asmt, recorded, structuredUnits, completed, thr>>

Structure(o, sub_dirs) ==
    /\ calls < MaxCalls
    /\ objs[o] # Null
    /\ thr[o].pc = "none"
    /\ Len(objs[o].root) < MaxDepth
    /\ calls' = calls + 1
    /\ UNCHANGED <<asmt, unitOf, thr>>
    /\ LET self == objs[o]
           new_root == self.root \o <<UnitDirName(self)>>
           rooted == MkRoot(dirs, files, new_root)
           made == MkSubDirs(rooted.dirs, files, new_root, sub_dirs)
           lg0 == [handler |-> rootHandler, level |-> rootLevel, files |-> files]
           lg1 == BasicConfig(lg0, LogPath(new_root))
           lg2 == LoggingInfo(lg1, StructureCreatedMsg(self, sub_dirs))
           lg3 == LoggingInfo(lg2, DeployedMsg("structure") \o <<".">>)
       IN  IF CheckMethodExecution(files, self.root, "structure")
           THEN /\ last' = Outcome("structure", o, "RuntimeError")
                /\ UNCHANGED <<dirs, files, rootHandler, rootLevel, objs, recorded, structuredUnits, completed>>
           ELSE /\ objs' = [objs EXCEPT ![o].root = new_root]
                /\ IF rooted.err # "none"
                   THEN /\ last' = Outcome("structure", o, "exists")
                        /\ UNCHANGED <<dirs, files, rootHandler, rootLevel, recorded, structuredUnits, completed>>
                   ELSE IF made.err # "none"
                   THEN /\ last' = Outcome("structure", o, made.err)
                        /\ dirs' = made.dirs
                        /\ UNCHANGED <<files, rootHandler, rootLevel, recorded, structuredUnits, completed>>
                   ELSE /\ last' = Outcome("structure", o, "ok")
                        /\ dirs' = made.dirs
                        /\ files' = lg3.files
                        /\ rootHandler' = lg3.handler
                        /\ rootLevel' = lg3.level
                        /\ recorded' = recorded \cup Emitted(lg2, "structure")
                        /\ structuredUnits' = structuredUnits \cup {unitOf[o]}
                        /\ completed' = completed \cup {<<new_root, "structure">>}

TopicName_NoTopic(week, topics) == <<"Week ", ToString(week)>>

\* f'Week {week}' or f'Week {week} - {topics[week - 1]}'
TopicName(week, topics) ==
    IF topics # <<>>
    THEN <<"Week ", ToString(week), " - ">> \o topics[week]
    ELSE <<"Week ", ToString(week)>>

RECURSIVE MkWeeks(_, _, _, _, _, _)
MkWeeks_StopsQuietly(d, f, material_dir, week, weeks, topics) ==
    IF week > weeks THEN [dirs |-> d, err |-> "none"]
    ELSE LET p == material_dir \o <<TopicName(week, topics)>>
         IN  IF Exists(d, f, p) THEN [dirs |-> d, err |-> "none"]
             ELSE MkWeeks(d \cup {p} \cup Parents(p), f, material_dir, week + 1, weeks, topics)

\* for week in range(1, weeks + 1): (material_dir / topic_name).mkdir(parents=True, exist_ok=False)
MkWeeks(d, f, material_dir, week, weeks, topics) ==
    IF week > weeks THEN [dirs |-> d, err |-> "none"]
    ELSE LET p == material_dir \o <<TopicName(week, topics)>>
         IN  IF Exists(d, f, p) THEN [dirs |-> d, err |-> "FileExistsError"]
             ELSE MkWeeks(d \cup {p} \cup Parents(p), f, material_dir, week + 1, weeks, topics)

PreconditionsHold_ZeroWeeks(weeks, topics) ==
    weeks >= 0 /\ (topics # <<>> => Len(topics) = weeks)

\* assert weeks > 0; if topics: assert len(topics) == weeks
PreconditionsHold(weeks, topics) ==
    weeks > 0 /\ (topics # <<>> => Len(topics) = weeks)

TeachingStructure(o, weeks, topics) ==
    /\ calls < MaxCalls
    /\ objs[o] # Null
    /\ thr[o].pc = "none"
    /\ calls' = calls + 1
    /\ UNCHANGED <<objs, asmt, unitOf, structuredUnits, thr>>
    /\ LET self == objs[o]
           material_dir == self.root \o << <<"Teaching Material">> >>
           made == MkWeeks(dirs, files, material_dir, 1, weeks, topics)
           lg0 == [handler |-> rootHandler, level |-> rootLevel, files |-> files]
           lg1 == LoggingInfo(lg0, DeployedMsg("teaching_structure"))
           out(res) == Outcome("teaching_structure", o, res)
       IN  IF CheckMethodExecution(files, self.root, "teaching_structure")
           THEN /\ last' = out("RuntimeError")
                /\ UNCHANGED <<dirs, files, rootHandler, rootLevel, recorded, completed>>
           ELSE IF ~PreconditionsHold(weeks, topics)
           THEN /\ last' = out("AssertionError")
                /\ UNCHANGED <<dirs, files, rootHandler, rootLevel, recorded, completed>>
           ELSE IF made.err # "none"
           THEN /\ last' = out(made.err)
                /\ dirs' = made.dirs
                /\ UNCHANGED <<files, rootHandler, rootLevel, recorded, completed>>
           ELSE /\ last' = out("ok")
                /\ dirs' = made.dirs
                /\ files' = lg1.files
                /\ rootHandler' = lg1.handler
                /\ rootLevel' = lg1.level
                /\ recorded' = recorded \cup Emitted(lg0, "teaching_structure")
                /\ completed' = completed \cup {<<self.root, "teaching_structure">>}

\* str.strip() and str.lower() on a line of single-character tokens
IsSpace(c) == c \in {" ", "\t", "\n"}

RECURSIVE LStrip(_)
LStrip(t) == IF t # <<>> /\ IsSpace(Head(t)) THEN LStrip(Tail(t)) ELSE t

RECURSIVE RStrip(_)
RStrip(t) == IF t # <<>> /\ IsSpace(t[Len(t)]) THEN RStrip(SubSeq(t, 1, Len(t) - 1)) ELSE t

Strip(t) == RStrip(LStrip(t))

LowerChar(c) == IF c = "Y" THEN "y" ELSE IF c = "N" THEN "n" ELSE IF c = "Q" THEN "q" ELSE c

Lower(t) == [i \in 1..Len(t) |-> LowerChar(t[i])]

Confirmed_UnlessNo(answer) == Lower(Strip(answer)) # <<"n">>

Confirmed_StartsWithY(answer) ==
    LET typed == Lower(Strip(answer))
    IN  typed # <<>> /\ Head(typed) = "y"

\* input(...).strip().lower() or 'n', then .strip().lower() != 'y'
Confirmed(answer) ==
    LET typed == Lower(Strip(answer))
        confirmation == IF typed = <<>> THEN <<"n">> ELSE typed
    IN  Lower(Strip(confirmation)) = <<"y">>

DocName(doc) == doc[Len(doc)]

DocNames(documents) == [i \in 1..Len(documents) |-> DocName(documents[i])]

ExistingFiles(d, f, documents_dir, documents) ==
    SelectSeq(DocNames(documents), LAMBDA n : Exists(d, f, documents_dir \o <<n>>))

\* shutil.copy(document, document_path) for each document, in order
RECURSIVE CopyAll(_, _, _, _)
CopyAll(d, f, documents_dir, documents) ==
    IF documents = <<>> THEN [files |-> f, err |-> "none"]
    ELSE LET src == Head(documents)
             dst == documents_dir \o <<DocName(src)>>
         IN  IF src \in d THEN [files |-> f, err |-> "IsADirectoryError"]
             ELSE IF src \notin DOMAIN f THEN [files |-> f, err |-> "FileNotFoundError"]
             ELSE IF dst \in d
                  THEN CopyAll(d, (dst \o <<DocName(src)>> :> f[src]) @@ f, documents_dir, Tail(documents))
             ELSE IF documents_dir \notin d THEN [files |-> f, err |-> "FileNotFoundError"]
             ELSE CopyAll(d, (dst :> f[src]) @@ f, documents_dir, Tail(documents))

CopiedMsg(documents) ==
    DeployedMsg("copy_documents") \o <<"\nCopied documents: ">> \o Join(DocNames(documents), <<", ">>)

AsksConfirmation_AnyCollision(existing_files, method_executed) ==
    existing_files # <<>>

\* if existing_files and method_executed: ... input(...)
AsksConfirmation(existing_files, method_executed) ==
    existing_files # <<>> /\ method_executed

\* copy_documents up to the confirmation prompt, where the call waits inside
\* input(), or to its end when it does not ask
CopyDocuments(o, docarg) ==
    /\ calls < MaxCalls
    /\ objs[o] # Null
    /\ thr[o].pc = "none"
    /\ calls' = calls + 1
    /\ UNCHANGED <<dirs, objs, asmt, unitOf, structuredUnits>>
    /\ LET self == objs[o]
           documents_dir == self.root \o << <<"Module Documents">> >>
           documents == IF docarg.isPath THEN <<docarg.val>> ELSE docarg.val
           method_executed == CheckMethodExecution(files, self.root, "copy_documents")
           existing_files == ExistingFiles(dirs, files, documents_dir, documents)
           copied == CopyAll(dirs, files, documents_dir, documents)
           lg0 == [handler |-> rootHandler, level |-> rootLevel, files |-> copied.files]
           lg1 == LoggingInfo(lg0, CopiedMsg(documents))
           out(res, prompts) == [Outcome("copy_documents", o, res) EXCEPT
                                   !.existing = existing_files, !.prompts = prompts]
       IN  IF AsksConfirmation(existing_files, method_executed)
           THEN /\ thr' = [thr EXCEPT ![o] = [pc |-> "prompt", documents |-> documents,
                                              existing_files |-> existing_files]]
                /\ last' = out("prompt", 1)
                /\ UNCHANGED <<files, rootHandler, rootLevel, recorded, completed>>
           ELSE /\ UNCHANGED thr
                /\ IF copied.err # "none"
                   THEN /\ last' = out(copied.err, 0)
                        /\ files' = copied.files
                        /\ UNCHANGED <<rootHandler, rootLevel, recorded, completed>>
                   ELSE /\ last' = out("ok", 0)
                        /\ files' = lg1.files
                        /\ rootHandler' = lg1.handler
                        /\ rootLevel' = lg1.level
                        /\ recorded' = recorded \cup Emitted(lg0, "copy_documents")
                        /\ completed' = completed \cup {<<self.root, "copy_documents">>}

\* input() returns the line typed at the prompt and copy_documents runs on
\* to its end
CopyDocumentsAnswer(o, answer) ==
    /\ thr[o].pc = "prompt"
    /\ thr' = [thr EXCEPT ![o] = NoThread]
    /\ UNCHANGED <<dirs, objs, asmt, unitOf, structuredUnits, calls>>
    /\ LET self == objs[o]
           documents_dir == self.root \o << <<"Module Documents">> >>
           documents == thr[o].documents
           copied == CopyAll(dirs, files, documents_dir, documents)
           lg0 == [handler |-> rootHandler, level |-> rootLevel, files |-> copied.files]
           lg1 == LoggingInfo(lg0, CopiedMsg(documents))
           out(res) == [Outcome("copy_documents", o, res) EXCEPT
                          !.existing = thr[o].existing_files, !.prompts = 1]
       IN  IF ~Confirmed(answer)
           THEN /\ last' = out("canceled")
                /\ UNCHANGED <<files, rootHandler, rootLevel, recorded, completed>>
           ELSE IF copied.err # "none"
           THEN /\ last' = out(copied.err)
                /\ files' = copied.files
                /\ UNCHANGED <<rootHandler, rootLevel, recorded, completed>>
           ELSE /\ last' = out("ok")
                /\ files' = lg1.files
                /\ rootHandler' = lg1.handler
                /\ rootLevel' = lg1.level
                /\ recorded' = recorded \cup Emitted(lg0, "copy_documents")
                /\ completed' = completed \cup {<<self.root, "copy_documents">>}

----------------------------------------------------------------------------
(* Assessment(Module) *)

\* Assessment.__init__: super().__init__(module_name, module_code, module_leader)
AssessmentInit(args) ==
    LET base == ModuleInit(<<args[4], args[5], args[6]>>)
    IN  IF base.err # "none" THEN base
        ELSE [err |-> "none",
              obj |-> [kind |-> "Assessment", name |-> args[2], code |-> base.obj.code,
                       year |-> base.obj.year, semester |-> base.obj.semester,
                       leader |-> base.obj.leader, root |-> base.obj.root,
                       assessment_type |-> args[1], due_date |-> args[3],
                       percentage_of_module |-> args[7], module_year |-> args[8]]]

\* the eight documented constructor arguments for an assessment of unit m
AssessmentArgs(m, atype, aname) ==
    <<atype, aname, DueDate, m.name, m.code, m.leader, Percentage, m.year>>

AssessmentDirName(self) == self.name \o <<" (">> \o self.assessment_type \o <<")">>

AssessmentSubDirs == << <<"Assessment Documents and Templates">> >>

\* a = Assessment(...) for the unit held by o, then a.structure()
AssessmentStructure(o, atype, aname) ==
    /\ calls < MaxCalls
    /\ objs[o] # Null
    /\ thr[o].pc = "none"
    /\ calls' = calls + 1
    /\ UNCHANGED <<objs, unitOf, structuredUnits, thr>>
    /\ LET made_obj == AssessmentInit(AssessmentArgs(objs[o], atype, aname))
           self == made_obj.obj
           new_root == self.root \o << <<"Assessment">>, AssessmentDirName(self) >>
           rooted == MkRoot(dirs, files, new_root)
           made == MkSubDirs(rooted.dirs, files, new_root, AssessmentSubDirs)
           lg0 == [handler |-> rootHandler, level |-> rootLevel, files |-> files]
           lg1 == BasicConfig(lg0, LogPath(new_root))
           lg2 == LoggingInfo(lg1, StructureCreatedMsg(self, AssessmentSubDirs))
           lg3 == LoggingInfo(lg2, DeployedMsg("structure") \o <<".">>)
           out(res) == Outcome("Assessment.structure", o, res)
       IN  IF made_obj.err # "none"
           THEN /\ last' = out(made_obj.err)
                /\ UNCHANGED <<dirs, files, rootHandler, rootLevel, asmt, recorded, completed>>
           ELSE IF CheckMethodExecution(files, self.root, "structure")
           THEN /\ last' = out("RuntimeError")
                /\ asmt' = self
                /\ UNCHANGED <<dirs, files, rootHandler, rootLevel, recorded, completed>>
           ELSE /\ asmt' = [self EXCEPT !.root = new_root]
                /\ IF rooted.err # "none"
                   THEN /\ last' = out("exists")
                        /\ UNCHANGED <<dirs, files, rootHandler, rootLevel, recorded, completed>>
                   ELSE IF made.err # "none"
                   THEN /\ last' = out(made.err)
                        /\ dirs' = made.dirs
                        /\ UNCHANGED <<files, rootHandler, rootLevel, recorded, completed>>
                   ELSE /\ last' = out("ok")
                        /\ dirs' = made.dirs
                        /\ files' = lg3.files
                        /\ rootHandler' = lg3.handler
                        /\ rootLevel' = lg3.level
                        /\ recorded' = recorded \cup Emitted(lg2, "structure")
                        /\ completed' = completed \cup {<<new_root, "Assessment.structure">>}

GradersListPath(root) == root \o << <<"Graders List.txt">> >>

\* for grader in graders: f.write(f'{grader}\n')
RECURSIVE GradersText(_)
GradersText(graders) ==
    IF graders = <<>> THEN <<>>
    ELSE Head(graders) \o <<"\n">> \o GradersText(Tail(graders))

\* a = Assessment(...) for the unit held by o, then a.graders_list(graders)
AssessmentGradersList(o, atype, aname, graders) ==
    /\ calls < MaxCalls
    /\ objs[o] # Null
    /\ thr[o].pc = "none"
    /\ calls' = calls + 1
    /\ UNCHANGED <<dirs, objs, unitOf, structuredUnits, thr>>
    /\ LET made_obj == AssessmentInit(AssessmentArgs(objs[o], atype, aname))
           self == made_obj.obj
           graders_list_path == GradersListPath(self.root)
           written == (graders_list_path :> GradersText(graders)) @@ files
           lg0 == [handler |-> rootHandler, level |-> rootLevel, files |-> written]
           lg1 == LoggingInfo(lg0, DeployedMsg("graders_list") \o <<".">>)
           out(res) == Outcome("graders_list", o, res)
       IN  IF made_obj.err # "none"
           THEN /\ last' = out(made_obj.err)
                /\ UNCHANGED <<files, rootHandler, rootLevel, asmt, recorded, completed>>
           ELSE /\ asmt' = self
                /\ IF CheckMethodExecution(files, self.root, "graders_list")
                   THEN /\ last' = out("RuntimeError")
                        /\ UNCHANGED <<files, rootHandler, rootLevel, recorded, completed>>
                   ELSE IF self.root \notin dirs \/ graders_list_path \in dirs
                   THEN /\ last' = out("OSError")
                        /\ UNCHANGED <<files, rootHandler, rootLevel, recorded, completed>>
                   ELSE /\ last' = [out("ok") EXCEPT !.ret = graders_list_path]
                        /\ files' = lg1.files
                        /\ rootHandler' = lg1.handler
                        /\ rootLevel' = lg1.level
                        /\ recorded' = recorded \cup Emitted(lg0, "graders_list")
                        /\ completed' = completed \cup {<<self.root, "graders_list">>}

----------------------------------------------------------------------------

Init ==
    /\ dirs = {Cwd, Ext1, Ext2}
    /\ files = ExtFiles
    /\ rootHandler = NoHandler
    /\ rootLevel = "WARNING"
    /\ objs = [o \in Objs |-> IF o = 1
                               THEN ModuleInit(<<ModName, FirstCode, Year, Semester, Leader, Cwd>>).obj
                               ELSE ModuleInit(<<ModName, OtherCode, Year, Semester, Leader>>).obj]
    /\ asmt = Null
    /\ last = Outcome("none", 0, "none")
    /\ calls = 0
    /\ recorded = {}
    /\ unitOf = [o \in Objs |-> Cwd \o <<UnitDirName([code |-> IF o = 1 THEN FirstCode ELSE OtherCode,
                                                        semester |-> Semester, year |-> Year])>>]
    /\ structuredUnits = {}
    /\ completed = {}
    /\ thr = [c \in Objs |-> NoThread]

Next ==
    \/ \E o \in Objs, code \in Codes, nested \in BOOLEAN : New(o, code, nested)
    \/ \E o \in Objs, sub_dirs \in SubDirChoices : Structure(o, sub_dirs)
    \/ \E o \in Objs, weeks \in WeekChoices, topics \in TopicLists : TeachingStructure(o, weeks, topics)
    \/ \E o \in Objs, docarg \in DocumentArgs : CopyDocuments(o, docarg)
    \/ \E o \in Objs, answer \in Answers : CopyDocumentsAnswer(o, answer)
    \/ \E o \in Objs, atype \in AssessmentTypes, aname \in AssessmentNames :
          AssessmentStructure(o, atype, aname)
    \/ \E o \in Objs, atype \in AssessmentTypes, aname \in AssessmentNames, graders \in GraderLists :
          AssessmentGradersList(o, atype, aname, graders)

Spec == Init /\ [][Next]_vars

\* A new process started over the disk an earlier process left behind: the
\* second unit was structured by that earlier run, logging is not configured.
PriorUnit == Cwd \o <<UnitDirName([code |-> OtherCode, semester |-> Semester, year |-> Year])>>

PriorRun ==
    LET self == ModuleInit(<<ModName, OtherCode, Year, Semester, Leader>>).obj
        lg0 == [handler |-> NoHandler, level |-> "WARNING", files |-> ExtFiles]
        lg1 == BasicConfig(lg0, LogPath(PriorUnit))
        lg2 == LoggingInfo(lg1, StructureCreatedMsg(self, DefaultSubDirs))
    IN  [dirs  |-> MkSubDirs({Cwd, Ext1, Ext2, PriorUnit}, ExtFiles, PriorUnit, DefaultSubDirs).dirs,
         files |-> LoggingInfo(lg2, DeployedMsg("structure") \o <<".">>).files]

InitRestart ==
    /\ dirs = PriorRun.dirs
    /\ files = PriorRun.files
    /\ rootHandler = NoHandler
    /\ rootLevel = "WARNING"
    /\ objs = [o \in Objs |-> IF o = 1
                               THEN ModuleInit(<<ModName, FirstCode, Year, Semester, Leader, Cwd>>).obj
                               ELSE ModuleInit(<<ModName, OtherCode, Year, Semester, Leader>>).obj]
    /\ asmt = Null
    /\ last = Outcome("none", 0, "none")
    /\ calls = 0
    /\ recorded = {<<LogPath(PriorUnit), "structure">>}
    /\ unitOf = [o \in Objs |-> Cwd \o <<UnitDirName([code |-> IF o = 1 THEN FirstCode ELSE OtherCode,
                                                        semester |-> Semester, year |-> Year])>>]
    /\ structuredUnits = {PriorUnit}
    /\ completed = {<<PriorUnit, "structure">>}
    /\ thr = [c \in Objs |-> NoThread]

SpecRestart == InitRestart /\ [][Next]_vars

\* A new process whose callers each hold a Module object rooted in the
\* directory of a unit that an earlier process structured and copied a.txt
\* into; they call copy_documents, and one may run while another waits at
\* its prompt.
CopiedUnit == Cwd \o <<UnitDirName([code |-> FirstCode, semester |-> Semester, year |-> Year])>>

PriorCopy ==
    LET self == ModuleInit(<<ModName, FirstCode, Year, Semester, Leader>>).obj
        d == MkSubDirs({Cwd, Ext1, Ext2, CopiedUnit}, ExtFiles, CopiedUnit, DefaultSubDirs).dirs
        lg0 == [handler |-> NoHandler, level |-> "WARNING", files |-> ExtFiles]
        lg1 == BasicConfig(lg0, LogPath(CopiedUnit))
        lg2 == LoggingInfo(lg1, StructureCreatedMsg(self, DefaultSubDirs))
        lg3 == LoggingInfo(lg2, DeployedMsg("structure") \o <<".">>)
        copied == CopyAll(d, lg3.files, CopiedUnit \o << <<"Module Documents">> >>, <<DocA1>>)
        lg4 == LoggingInfo([lg3 EXCEPT !.files = copied.files], CopiedMsg(<<DocA1>>))
    IN  [dirs |-> d, files |-> lg4.files]

InitCopy ==
    /\ dirs = PriorCopy.dirs
    /\ files = PriorCopy.files
    /\ rootHandler = NoHandler
    /\ rootLevel = "WARNING"
    /\ objs = [o \in Objs |->
                 ModuleInit(<<ModName, FirstCode, Year, Semester, Leader, CopiedUnit>>).obj]
    /\ asmt = Null
    /\ last = Outcome("none", 0, "none")
    /\ calls = 0
    /\ recorded = {<<LogPath(CopiedUnit), "structure">>, <<LogPath(CopiedUnit), "copy_documents">>}
    /\ unitOf = [o \in Objs |-> CopiedUnit \o <<UnitDirName(objs[o])>>]
    /\ structuredUnits = {CopiedUnit}
    /\ completed = {<<CopiedUnit, "structure">>, <<CopiedUnit, "copy_documents">>}
    /\ thr = [c \in Objs |-> NoThread]

NextCopy ==
    \/ \E o \in Objs, docarg \in DocumentArgs : CopyDocuments(o, docarg)
    \/ \E o \in Objs, answer \in Answers : CopyDocumentsAnswer(o, answer)

SpecCopy == InitCopy /\ [][NextCopy]_vars

----------------------------------------------------------------------------
(* Module.structure called by several callers at once for the same unit,   *)
(* one step per statement that reads or writes the disk or the logger      *)

\* if self._check_method_execution('structure'): raise RuntimeError(...)
CheckGuard(c, sub_dirs) ==
    /\ thr[c].pc = "ready"
    /\ thr' = [thr EXCEPT ![c] =
                 [pc |-> IF CheckMethodExecution(files, objs[c].root, "structure")
                         THEN "RuntimeError" ELSE "checked",
                  sub_dirs |-> sub_dirs, idx |-> 0,
                  sawNoUnit |-> ~Exists(dirs, files, objs[c].root \o <<UnitDirName(objs[c])>>)]]
    /\ UNCHANGED <<dirs, files, rootHandler, rootLevel, objs, asmt, last, calls, recorded,
                   unitOf, structuredUnits, completed>>

\* self.root = self.root / f'{code} {semester} {year}'; self.root.mkdir(...)
\* with FileExistsError caught: print and return
MkdirRoot(c) ==
    /\ thr[c].pc = "checked"
    /\ LET new_root == objs[c].root \o <<UnitDirName(objs[c])>>
           rooted == MkRoot(dirs, files, new_root)
       IN  /\ objs' = [objs EXCEPT ![c].root = new_root]
           /\ dirs' = rooted.dirs
           /\ thr' = [thr EXCEPT ![c].pc = IF rooted.err # "none" THEN "exists"
                                           ELSE IF thr[c].sub_dirs = <<>> THEN "config"
                                           ELSE "subdirs",
                                 ![c].idx = 1]
    /\ UNCHANGED <<files, rootHandler, rootLevel, asmt, last, calls, recorded,
                   unitOf, structuredUnits, completed>>

\* one turn of: for sub_dir in sub_dirs: (self.root / sub_dir).mkdir(parents=True, exist_ok=False)
MkdirSub(c) ==
    /\ thr[c].pc = "subdirs"
    /\ LET p == objs[c].root \o <<thr[c].sub_dirs[thr[c].idx]>>
       IN  IF Exists(dirs, files, p)
           THEN /\ thr' = [thr EXCEPT ![c].pc = "FileExistsError"]
                /\ UNCHANGED dirs
           ELSE /\ dirs' = dirs \cup {p}
                /\ thr' = [thr EXCEPT ![c].idx = @ + 1,
                                      ![c].pc = IF thr[c].idx = Len(thr[c].sub_dirs)
                                                THEN "config" ELSE "subdirs"]
    /\ UNCHANGED <<files, rootHandler, rootLevel, objs, asmt, last, calls, recorded,
                   unitOf, structuredUnits, completed>>

\* logging.basicConfig(filename=log_path, level=logging.INFO)
Configure(c) ==
    /\ thr[c].pc = "config"
    /\ LET lg0 == [handler |-> rootHandler, level |-> rootLevel, files |-> files]
           lg1 == BasicConfig(lg0, LogPath(objs[c].root))
       IN  /\ files' = lg1.files
           /\ rootHandler' = lg1.handler
           /\ rootLevel' = lg1.level
    /\ thr' = [thr EXCEPT ![c].pc = "info"]
    /\ UNCHANGED <<dirs, objs, asmt, last, calls, recorded, unitOf, structuredUnits, completed>>

\* logging.info("Module ... created at ...")
LogCreated(c) ==
    /\ thr[c].pc = "info"
    /\ LET lg1 == [handler |-> rootHandler, level |-> rootLevel, files |-> files]
           lg2 == LoggingInfo(lg1, StructureCreatedMsg(objs[c], thr[c].sub_dirs))
       IN  /\ files' = lg2.files
           /\ rootHandler' = lg2.handler
           /\ rootLevel' = lg2.level
    /\ thr' = [thr EXCEPT ![c].pc = "marker"]
    /\ UNCHANGED <<dirs, objs, asmt, last, calls, recorded, unitOf, structuredUnits, completed>>

\* logging.info("'structure' method deployed on ...")
LogDeployed(c) ==
    /\ thr[c].pc = "marker"
    /\ LET lg2 == [handler |-> rootHandler, level |-> rootLevel, files |-> files]
           lg3 == LoggingInfo(lg2, DeployedMsg("structure") \o <<".">>)
       IN  /\ files' = lg3.files
           /\ rootHandler' = lg3.handler
           /\ rootLevel' = lg3.level
           /\ recorded' = recorded \cup Emitted(lg2, "structure")
    /\ structuredUnits' = structuredUnits \cup {unitOf[c]}
    /\ completed' = completed \cup {<<objs[c].root, "structure">>}
    /\ thr' = [thr EXCEPT ![c].pc = "ok"]
    /\ UNCHANGED <<dirs, objs, asmt, last, calls, unitOf>>

\* every caller holds its own Module object for the first unit, rooted in the
\* working directory, and is about to call structure
InitConcurrent ==
    /\ dirs = {Cwd, Ext1, Ext2}
    /\ files = ExtFiles
    /\ rootHandler = NoHandler
    /\ rootLevel = "WARNING"
    /\ objs = [c \in Objs |-> ModuleInit(<<ModName, FirstCode, Year, Semester, Leader, Cwd>>).obj]
    /\ asmt = Null
    /\ last = Outcome("none", 0, "none")
    /\ calls = 0
    /\ recorded = {}
    /\ unitOf = [c \in Objs |-> Cwd \o <<UnitDirName([code |-> FirstCode, semester |-> Semester,
                                                        year |-> Year])>>]
    /\ structuredUnits = {}
    /\ completed = {}
    /\ thr = [c \in Objs |-> [NoThread EXCEPT !.pc = "ready"]]

NextConcurrent ==
    \/ \E c \in Objs, sub_dirs \in SubDirChoices : CheckGuard(c, sub_dirs)
    \/ \E c \in Objs : MkdirRoot(c)
    \/ \E c \in Objs : MkdirSub(c)
    \/ \E c \in Objs : Configure(c)
    \/ \E c \in Objs : LogCreated(c)
    \/ \E c \in Objs : LogDeployed(c)

SpecConcurrent == InitConcurrent /\ [][NextConcurrent]_vars

----------------------------------------------------------------------------
(* The Module class kept under src/src/Module: the same constructor,       *)
(* structure and teaching_structure, with its own _check_method_execution  *)

VariantLogPath(root) == root \o << <<".module_log.txt">> >>

\* _check_method_execution: read <root>/.module_log.txt, search for the marker
VariantCheckMethodExecution(f, root, method_name) ==
    LET log_path == VariantLogPath(root)
    IN  IF log_path \in DOMAIN f
        THEN IsSubstring(MarkerPattern(method_name), f[log_path])
        ELSE FALSE

VariantStructure(o, sub_dirs) ==
    /\ calls < MaxCalls
    /\ objs[o] # Null
    /\ Len(objs[o].root) < MaxDepth
    /\ calls' = calls + 1
    /\ UNCHANGED <<asmt, unitOf, thr>>
    /\ LET self == objs[o]
           new_root == self.root \o <<UnitDirName(self)>>
           rooted == MkRoot(dirs, files, new_root)
           made == MkSubDirs(rooted.dirs, files, new_root, sub_dirs)
           lg0 == [handler |-> rootHandler, level |-> rootLevel, files |-> files]
           lg1 == BasicConfig(lg0, LogPath(new_root))
           lg2 == LoggingInfo(lg1, StructureCreatedMsg(self, sub_dirs))
           lg3 == LoggingInfo(lg2, DeployedMsg("structure") \o <<".">>)
       IN  IF VariantCheckMethodExecution(files, self.root, "structure")
           THEN /\ last' = Outcome("structure", o, "RuntimeError")
                /\ UNCHANGED <<dirs, files, rootHandler, rootLevel, objs, recorded, structuredUnits, completed>>
           ELSE /\ objs' = [objs EXCEPT ![o].root = new_root]
                /\ IF rooted.err # "none"
                   THEN /\ last' = Outcome("structure", o, "exists")
                        /\ UNCHANGED <<dirs, files, rootHandler, rootLevel, recorded, structuredUnits, completed>>
                   ELSE IF made.err # "none"
                   THEN /\ last' = Outcome("structure", o, made.err)
                        /\ dirs' = made.dirs
                        /\ UNCHANGED <<files, rootHandler, rootLevel, recorded, structuredUnits, completed>>
                   ELSE /\ last' = Outcome("structure", o, "ok")
                        /\ dirs' = made.dirs
                        /\ files' = lg3.files
                        /\ rootHandler' = lg3.handler
                        /\ rootLevel' = lg3.level
                        /\ recorded' = recorded \cup Emitted(lg2, "structure")
                        /\ structuredUnits' = structuredUnits \cup {unitOf[o]}
                        /\ completed' = completed \cup {<<new_root, "structure">>}

VariantTeachingStructure(o, weeks, topics) ==
    /\ calls < MaxCalls
    /\ objs[o] # Null
    /\ calls' = calls + 1
    /\ UNCHANGED <<objs, asmt, unitOf, structuredUnits, thr>>
    /\ LET self == objs[o]
           material_dir == self.root \o << <<"Teaching Material">> >>
           made == MkWeeks(dirs, files, material_dir, 1, weeks, topics)
           lg0 == [handler |-> rootHandler, level |-> rootLevel, files |-> files]
           lg1 == LoggingInfo(lg0, DeployedMsg("teaching_structure"))
           out(res) == Outcome("teaching_structure", o, res)
       IN  IF VariantCheckMethodExecution(files, self.root, "teaching_structure")
           THEN /\ last' = out("RuntimeError")
                /\ UNCHANGED <<dirs, files, rootHandler, rootLevel, recorded, completed>>
           ELSE IF ~PreconditionsHold(weeks, topics)
           THEN /\ last' = out("AssertionError")
                /\ UNCHANGED <<dirs, files, rootHandler, rootLevel, recorded, completed>>
           ELSE IF made.err # "none"
           THEN /\ last' = out(made.err)
                /\ dirs' = made.dirs
                /\ UNCHANGED <<files, rootHandler, rootLevel, recorded, completed>>
           ELSE /\ last' = out("ok")
                /\ dirs' = made.dirs
                /\ files' = lg1.files
                /\ rootHandler' = lg1.handler
                /\ rootLevel' = lg1.level
                /\ recorded' = recorded \cup Emitted(lg0, "teaching_structure")
                /\ completed' = completed \cup {<<self.root, "teaching_structure">>}

NextVariant ==
    \/ \E o \in Objs, code \in Codes, nested \in BOOLEAN : New(o, code, nested)
    \/ \E o \in Objs, sub_dirs \in SubDirChoices : VariantStructure(o, sub_dirs)
    \/ \E o \in Objs, weeks \in WeekChoices, topics \in TopicLists :
          VariantTeachingStructure(o, weeks, topics)

SpecVariant == Init /\ [][NextVariant]_vars

----------------------------------------------------------------------------
(* Module.gather_documents(explorer=False): the console loop, one step per *)
(* line read from standard input                                           *)

\* lines a user may enter, path separators and blanks being tokens of their own
EnteredLines ==
    { <<"q">>, <<" ", "Q", " ">>, <<"q", "q">>, <<>>,
      <<"/", "ext1", "/", "a.txt">>, <<" ", "/", "ext2", "/", "a.txt", " ">>,
      <<"/", "ext1">>, <<"b.txt">> }

RECURSIVE LinesUpTo(_)
LinesUpTo(n) ==
    IF n = 0 THEN { <<>> }
    ELSE LinesUpTo(n - 1)
         \cup { Append(ls, l) : ls \in { x \in LinesUpTo(n - 1) : Len(x) = n - 1 }, l \in EnteredLines }

\* the components of a path text between its "/" separators, empty ones dropped
RECURSIVE PathParts(_, _)
PathParts(text, part) ==
    IF text = <<>> THEN (IF part = <<>> THEN <<>> ELSE <<part>>)
    ELSE IF Head(text) = "/"
         THEN (IF part = <<>> THEN <<>> ELSE <<part>>) \o PathParts(Tail(text), <<>>)
    ELSE PathParts(Tail(text), Append(part, Head(text)))

\* pl.Path(file_path), as its parts: an absolute path starts with the part "/"
ParsePath(file_path) ==
    IF file_path # <<>> /\ Head(file_path) = "/"
    THEN << <<"/">> >> \o PathParts(file_path, <<>>)
    ELSE PathParts(file_path, <<>>)

\* the file system entry a path names, a relative path being taken from the
\* working directory
Resolve(path) ==
    IF path # <<>> /\ Head(path) = <<"/">> THEN Tail(path) ELSE Cwd \o path

\* path.is_file()
IsFile(f, path) == Resolve(path) \in DOMAIN f

IsSentinel_CaseSensitive(file_path) == file_path = <<"q">>

\* file_path.lower() == 'q'
IsSentinel(file_path) == Lower(file_path) = <<"q">>

\* document_paths = []; print(...); print(...), standard input holding any
\* lines; one call is followed from its start to its end
GatherDocuments(o) ==
    /\ \A c \in Objs : thr[c].pc = "ready"
    /\ objs[o] # Null
    /\ \E lines \in LinesUpTo(MaxLines) :
          thr' = [thr EXCEPT ![o] = [pc |-> "input", stdin |-> lines, read |-> 0,
                                    rejected |-> 0, document_paths |-> <<>>]]
    /\ UNCHANGED <<dirs, files, rootHandler, rootLevel, objs, asmt, last, calls, recorded,
                   unitOf, structuredUnits, completed>>

\* one turn of the while True loop; input() raises EOFError at the end of input
GatherInput(o) ==
    /\ thr[o].pc = "input"
    /\ IF thr[o].read = Len(thr[o].stdin)
       THEN thr' = [thr EXCEPT ![o].pc = "EOFError"]
       ELSE LET file_path == Strip(thr[o].stdin[thr[o].read + 1])
                path == ParsePath(file_path)
            IN  IF IsSentinel(file_path)
                THEN thr' = [thr EXCEPT ![o].read = @ + 1, ![o].pc = "returned"]
                ELSE IF ~IsFile(files, path)
                THEN thr' = [thr EXCEPT ![o].read = @ + 1, ![o].rejected = @ + 1]
                ELSE thr' = [thr EXCEPT ![o].read = @ + 1,
                                        ![o].document_paths = Append(@, path)]
    /\ UNCHANGED <<dirs, files, rootHandler, rootLevel, objs, asmt, last, calls, recorded,
                   unitOf, structuredUnits, completed>>

InitGather ==
    /\ dirs = {Cwd, Ext1, Ext2}
    /\ files = ExtFiles
    /\ rootHandler = NoHandler
    /\ rootLevel = "WARNING"
    /\ objs = [o \in Objs |-> ModuleInit(<<ModName, FirstCode, Year, Semester, Leader, Cwd>>).obj]
    /\ asmt = Null
    /\ last = Outcome("none", 0, "none")
    /\ calls = 0
    /\ recorded = {}
    /\ unitOf = [o \in Objs |-> Cwd \o <<UnitDirName([code |-> FirstCode, semester |-> Semester,
                                                        year |-> Year])>>]
    /\ structuredUnits = {}
    /\ completed = {}
    /\ thr = [c \in Objs |-> [NoThread EXCEPT !.pc = "ready"]]

NextGather ==
    \/ \E o \in Objs : GatherDocuments(o)
    \/ \E o \in Objs : GatherInput(o)

SpecGather == InitGather /\ [][NextGather]_vars

----------------------------------------------------------------------------
(* Properties *)

RECURSIVE NoDuplicates(_)
NoDuplicates(names) ==
    \/ names = <<>>
    \/ /\ \A i \in 2..Len(names) : names[i] # names[1]
       /\ NoDuplicates(Tail(names))

\* C1: once Module.structure has completed successfully for a unit, every
\* later structure attempt on that unit, through the same object or through a
\* new object with the same code, semester, year and provisional root, fails
\* with the already-executed RuntimeError and creates no directory.
C1_AlreadyCompleted ==
    [][\A o \in Objs, sub_dirs \in SubDirChoices :
          unitOf[o] \in structuredUnits /\ Structure(o, sub_dirs)
          => last'.res = "RuntimeError" /\ dirs' = dirs]_vars

\* C2: for a unit whose directory <provisional root>/{code} {semester} {year}
\* does not yet exist, the first structure call succeeds, and afterwards the
\* directory exists and holds exactly the configured subdirectories.
C2_FirstStructureSucceeds ==
    [][\A o \in Objs, sub_dirs \in SubDirChoices :
          /\ objs[o] # Null
          /\ objs[o].root \o <<UnitDirName(objs[o])>> = unitOf[o]
          /\ ~Exists(dirs, files, unitOf[o])
          /\ NoDuplicates(sub_dirs)
          /\ Structure(o, sub_dirs)
          => /\ last'.res = "ok"
             /\ unitOf[o] \in dirs'
             /\ Children(dirs', unitOf[o]) = { unitOf[o] \o <<sub_dirs[i]>> : i \in 1..Len(sub_dirs) }]_vars

\* C3: the guard is exact per operation name: it answers True for operation X
\* in a directory exactly when the marker of X has been recorded in that
\* directory's log, whatever metadata was written with the markers.
C3_GuardExact ==
    \A d \in dirs : \A op \in OpNames :
        CheckMethodExecution(files, d, op) <=> (<<LogPath(d), op>> \in recorded)

\* the folder name the naming rule gives week i (i counted from 1)
WeekFolder(i, topics) ==
    IF topics = <<>> THEN <<"Week ", ToString(i)>>
    ELSE <<"Week ", ToString(i), " - ">> \o topics[i]

ValidWeeks(weeks, topics) == weeks > 0 /\ (topics = <<>> \/ Len(topics) = weeks)

MaterialDir(o) == objs[o].root \o << <<"Teaching Material">> >>

\* C4: for weeks > 0 and topics empty or of length weeks, a teaching_structure
\* call that the guard lets through, on a unit whose Teaching Material holds
\* none of the week folders yet, creates exactly weeks folders under
\* <unit root>/Teaching Material, the i-th named "Week {i}" or
\* "Week {i} - {topics[i-1]}".
C4_WeekFolders ==
    [][last'.op = "teaching_structure" => \A o \in {last'.obj} :
        objs[o] # Null /\ ~CheckMethodExecution(files, objs[o].root, "teaching_structure") =>
        \A weeks \in WeekChoices, topics \in TopicLists :
          /\ ValidWeeks(weeks, topics)
          /\ \A i \in 1..weeks : ~Exists(dirs, files, MaterialDir(o) \o <<WeekFolder(i, topics)>>)
          /\ TeachingStructure(o, weeks, topics)
          => LET expected == { MaterialDir(o) \o <<WeekFolder(i, topics)>> : i \in 1..weeks }
             IN  /\ last'.res = "ok"
                 /\ Children(dirs', MaterialDir(o)) \ Children(dirs, MaterialDir(o)) = expected
                 /\ Cardinality(expected) = weeks
                 /\ dirs' \ dirs \subseteq expected \cup {MaterialDir(o)} \cup Parents(MaterialDir(o))
                 /\ dirs \subseteq dirs']_vars

\* two week folders named after their topics were created in a structured unit
C4_Witness ==
    /\ last.op = "teaching_structure" /\ last.res = "ok"
    /\ Children(dirs, MaterialDir(last.obj))
         = { MaterialDir(last.obj) \o << <<"Week ", "1", " - ", "Intro">> >>,
             MaterialDir(last.obj) \o << <<"Week ", "2", " - ", "Stats">> >> }
    /\ objs[last.obj].root \o << <<"Assessments">> >> \in dirs

\* C5: a teaching_structure call with weeks <= 0, or with a non-empty topics
\* list whose length differs from weeks, is rejected before any side effect:
\* no folder is created, no file is written and no marker is recorded; the
\* error is the precondition error (AssertionError) whenever the guard has not
\* already rejected the call as executed.
C5_PreconditionRejected ==
    [][last'.op = "teaching_structure" => \A o \in {last'.obj} :
        (\E weeks \in WeekChoices, topics \in TopicLists :
            /\ (weeks <= 0 \/ (topics # <<>> /\ Len(topics) # weeks))
            /\ TeachingStructure(o, weeks, topics))
          => /\ dirs' = dirs /\ files' = files /\ recorded' = recorded
             /\ rootHandler' = rootHandler /\ objs' = objs
             /\ last'.res \in {"AssertionError", "RuntimeError"}
             /\ ~CheckMethodExecution(files, objs[o].root, "teaching_structure")
                => last'.res = "AssertionError"]_vars

\* a call rejected with the precondition error in a structured unit
C5_Witness ==
    /\ last.op = "teaching_structure" /\ last.res = "AssertionError"
    /\ rootHandler.kind = "file"
    /\ MaterialDir(last.obj) \in dirs
    /\ Children(dirs, MaterialDir(last.obj)) = {}

DocumentsDir(o) == objs[o].root \o << <<"Module Documents">> >>

DocumentsOf(docarg) == IF docarg.isPath THEN <<docarg.val>> ELSE docarg.val

\* the source of the last document of the batch that carries the given name
LastWithName(documents, n) ==
    documents[CHOOSE i \in 1..Len(documents) :
                 /\ DocName(documents[i]) = n
                 /\ \A j \in (i + 1)..Len(documents) : DocName(documents[j]) # n]

\* C6: copy_documents asks for confirmation exactly when some incoming file
\* name already exists in the destination and the guard shows copy_documents
\* ran before, and then asks once for the whole batch; without a prior run
\* colliding names are overwritten without a prompt.
C6_PromptExactlyWhen ==
    [][last'.op = "copy_documents" => \A o \in {last'.obj} :
        \A docarg \in DocumentArgs :
          CopyDocuments(o, docarg)
          => LET documents == DocumentsOf(docarg)
                 collides == \E i \in 1..Len(documents) :
                                Exists(dirs, files, DocumentsDir(o) \o <<DocName(documents[i])>>)
                 ran == CheckMethodExecution(files, objs[o].root, "copy_documents")
             IN  /\ last'.prompts = (IF collides /\ ran THEN 1 ELSE 0)
                 /\ (thr'[o].pc = "prompt") = (collides /\ ran)
                 /\ thr'[o].pc = "prompt" => files' = files /\ last'.res = "prompt"
                 /\ ~collides => last'.prompts = 0
                 /\ collides /\ ~ran /\ DocumentsDir(o) \in dirs
                    => /\ last'.res = "ok"
                       /\ \A i \in 1..Len(documents) :
                             files'[DocumentsDir(o) \o <<DocName(documents[i])>>]
                               = files[LastWithName(documents, DocName(documents[i]))]]_vars

\* a batch of two files, the second of them colliding, prompted once
C6_Witness ==
    /\ last.op = "copy_documents" /\ last.prompts = 1
    /\ last.existing = << <<"a.txt">> >>
    /\ DocumentsDir(last.obj) \o << <<"b.txt">> >> \in DOMAIN files

\* a colliding name overwritten without a prompt
C6_WitnessOverwrite ==
    /\ last.op = "copy_documents" /\ last.prompts = 0 /\ last.res = "ok"
    /\ last.existing = << <<"a.txt">> >>
    /\ files[DocumentsDir(last.obj) \o << <<"a.txt">> >>] = <<"v2">>

\* answers that decline the confirmation
Declines == { <<"n">>, <<>>, <<" ">> }

\* C7: when the user declines the confirmation the whole batch is aborted:
\* no file is copied, the destination is as before the call and no
\* copy_documents marker is appended to the log.
C7_DeclineAborts ==
    [][last'.op = "copy_documents" /\ last'.prompts = 1 => \A o \in {last'.obj} :
        \A answer \in Declines :
          CopyDocumentsAnswer(o, answer)
          => /\ last'.res = "canceled"
             /\ files' = files /\ dirs' = dirs /\ recorded' = recorded]_vars

\* a declined batch: the colliding file kept its content, the other was not copied
C7_Witness ==
    /\ last.op = "copy_documents" /\ last.res = "canceled"
    /\ last.existing = << <<"a.txt">> >>
    /\ files[DocumentsDir(last.obj) \o << <<"a.txt">> >>] = <<"v1">>
    /\ DocumentsDir(last.obj) \o << <<"b.txt">> >> \notin DOMAIN files

\* the lines of a text, each without its terminating "\n"
RECURSIVE ReadLines(_, _)
ReadLines(text, line) ==
    IF text = <<>> THEN (IF line = <<>> THEN <<>> ELSE <<line>>)
    ELSE IF Head(text) = "\n" THEN <<line>> \o ReadLines(Tail(text), <<>>)
    ELSE ReadLines(Tail(text), Append(line, Head(text)))

\* C8: structuring an assessment named N of kind K that belongs to an already
\* structured unit produces <unit root>/Assessment/N (K)/Assessment Documents
\* and Templates.
C8_AssessmentNests ==
    [][\A o \in Objs, atype \in AssessmentTypes, aname \in AssessmentNames :
          /\ unitOf[o] \in structuredUnits /\ objs[o].root = unitOf[o]
          /\ AssessmentStructure(o, atype, aname)
          => /\ last'.res = "ok"
             /\ (unitOf[o] \o << <<"Assessment">>, aname \o <<" (">> \o atype \o <<")">>,
                                 <<"Assessment Documents and Templates">> >>) \in dirs']_vars

\* C9: graders_list writes an artifact in the assessment's directory that,
\* read back line by line, yields the given names in the given order, and
\* returns the artifact's path.
C9_GradersRoundTrip ==
    [][\A o \in Objs, atype \in AssessmentTypes, aname \in AssessmentNames, graders \in GraderLists :
          AssessmentGradersList(o, atype, aname, graders)
          => /\ last'.res = "ok"
             /\ asmt' # Null
             /\ last'.ret = asmt'.root \o << <<"Graders List.txt">> >>
             /\ last'.ret \in DOMAIN files'
             /\ ReadLines(files'[last'.ret], <<>>) = graders]_vars

\* C10: a unit's root is reassigned exactly once, by the first successful
\* structure call, to <provisional root>/{code} {semester} {year}; a structure
\* call that raises or aborts leaves it unchanged, and so does every later call.
C10_RootReassignedOnce ==
    [][\A o \in Objs :
          last'.op # "Module" /\ objs'[o].root # objs[o].root
          => /\ last'.op = "structure" /\ last'.obj = o
             /\ last'.res = "ok"
             /\ unitOf[o] \notin structuredUnits
             /\ objs'[o].root = unitOf[o]]_vars

\* the log stored in a directory holds the marker text of an operation
LogHoldsMarker(f, root, op) ==
    /\ LogPath(root) \in DOMAIN f
    /\ IsSubstring(MarkerPattern(op), f[LogPath(root)])

\* nothing on disk, in the logging configuration or in the objects changed
NothingChanged ==
    /\ dirs' = dirs /\ files' = files /\ recorded' = recorded
    /\ rootHandler' = rootHandler /\ rootLevel' = rootLevel /\ objs' = objs

\* C11: every structural operation (Module.structure, teaching_structure,
\* Assessment.structure, graders_list) consults the guard first: a call made
\* while the log in the entity's root holds the operation's marker ends with
\* the "already executed" RuntimeError and leaves directories, files, the
\* log and the entity's root unchanged.
C11_GuardFailsFast ==
    [][/\ last'.op \in {"structure", "teaching_structure"} =>
            \A o \in {last'.obj} :
               LogHoldsMarker(files, objs[o].root, last'.op)
               => last'.res = "RuntimeError" /\ NothingChanged
       /\ last'.op \in {"Assessment.structure", "graders_list"} =>
            \A o \in {last'.obj}, atype \in AssessmentTypes, aname \in AssessmentNames :
               LET a == AssessmentInit(AssessmentArgs(objs[o], atype, aname))
                   op == IF last'.op = "graders_list" THEN "graders_list" ELSE "structure"
               IN  a.err = "none" /\ LogHoldsMarker(files, a.obj.root, op)
                   => last'.res = "RuntimeError" /\ NothingChanged]_vars

\* a second teaching_structure call stopped by the guard in a unit whose week
\* folder the first call created
C11_Witness ==
    /\ last.op = "teaching_structure" /\ last.res = "RuntimeError"
    /\ <<objs[last.obj].root, "teaching_structure">> \in completed
    /\ LogHoldsMarker(files, objs[last.obj].root, "teaching_structure")
    /\ Children(dirs, MaterialDir(last.obj)) # {}

\* C12: a marker is recorded only after all of the operation's directories
\* were created: a structure or teaching_structure call that appends to a log
\* has created the unit directory with every subdirectory, respectively every
\* week folder, and a call that ends in any other way than normally appends
\* nothing to any log; directories are never removed afterwards.
C12_MarkerAfterCreation ==
    [][/\ last'.op = "structure" /\ (files' # files \/ recorded' # recorded) =>
            \A o \in {last'.obj}, sub_dirs \in SubDirChoices :
               Structure(o, sub_dirs)
               => /\ last'.res = "ok"
                  /\ objs'[o].root \in dirs'
                  /\ \A i \in 1..Len(sub_dirs) : objs'[o].root \o <<sub_dirs[i]>> \in dirs'
       /\ last'.op = "teaching_structure" /\ (files' # files \/ recorded' # recorded) =>
            \A o \in {last'.obj}, weeks \in WeekChoices, topics \in TopicLists :
               TeachingStructure(o, weeks, topics)
               => /\ last'.res = "ok"
                  /\ \A i \in 1..weeks : MaterialDir(o) \o <<WeekFolder(i, topics)>> \in dirs'
       /\ last'.op \in {"structure", "teaching_structure"} /\ last'.res # "ok"
            => files' = files /\ recorded' = recorded
       /\ dirs \subseteq dirs']_vars

\* how many times a text occurs in another
Occurrences(pat, text) ==
    Cardinality({ i \in 0..(Len(text) - Len(pat)) : \A j \in 1..Len(pat) : text[i + j] = pat[j] })

\* a teaching_structure call whose folder creation failed while the process
\* logs to a file: the log holds the marker of the earlier call only
C12_Witness ==
    /\ last.op = "teaching_structure" /\ last.res = "FileExistsError"
    /\ rootHandler.kind = "file" /\ rootLevel = "INFO"
    /\ <<objs[last.obj].root, "teaching_structure">> \in completed
    /\ Occurrences(MarkerPattern("teaching_structure"), files[rootHandler.path]) = 1

\* C13: the setup log is per directory: whenever a guarded operation
\* completes for a unit or an assessment, its marker is in the log file stored
\* in that entity's own directory, for every entity handled in one run,
\* including the second and later units structured in the same process.
C13_LogPerDirectory ==
    [][/\ last'.op \in {"structure", "teaching_structure"} /\ last'.res = "ok"
            => LogHoldsMarker(files', objs'[last'.obj].root, last'.op)
       /\ last'.op \in {"Assessment.structure", "graders_list"} /\ last'.res = "ok"
            => LogHoldsMarker(files', asmt'.root,
                              IF last'.op = "graders_list" THEN "graders_list" ELSE "structure")]_vars

\* the directory a structure call through object o is about to create
TargetRoot(o) == objs[o].root \o <<UnitDirName(objs[o])>>

\* C14: when <root>/{code} {semester} {year} already exists as structure is
\* called and the guard did not trigger, the whole scaffold is aborted: no
\* subdirectory is created in the existing directory, nothing is logged, and
\* the call prints and returns without raising, an outcome distinct from the
\* already-executed RuntimeError.
C14_ExistsAborts ==
    [][last'.op = "structure" =>
          \A o \in {last'.obj} :
             /\ ~CheckMethodExecution(files, objs[o].root, "structure")
             /\ Exists(dirs, files, TargetRoot(o))
             => /\ last'.res = "exists"
                /\ dirs' = dirs /\ files' = files /\ recorded' = recorded
                /\ rootHandler' = rootHandler /\ rootLevel' = rootLevel]_vars

\* a structure call aborted on the directory another object had scaffolded,
\* which still holds exactly the subdirectories of that first scaffold
C14_Witness ==
    /\ last.op = "structure" /\ last.res = "exists"
    /\ <<objs[last.obj].root, "structure">> \in completed
    /\ Children(dirs, objs[last.obj].root)
         = { objs[last.obj].root \o <<DefaultSubDirs[i]>> : i \in 1..Len(DefaultSubDirs) }

\* C15: after a partial prior failure of structure (the unit directory was
\* created but the call did not return normally), every re-run of structure
\* for that unit, through the same object or a new one, is not reported as
\* already executed but ends with the directory-already-exists outcome, and
\* creates no further directory.
C15_RerunAfterPartialFailure ==
    [][last'.op = "structure" =>
          \A o \in {last'.obj} :
             unitOf[o] \in dirs /\ unitOf[o] \notin structuredUnits
             => last'.res = "exists" /\ dirs' = dirs]_vars

\* C17: after a successful teaching_structure on a unit, the log of the
\* unit's directory holds the 'teaching_structure' marker, and any second
\* teaching_structure call on that unit raises RuntimeError and creates no
\* folder, in every order of operations, teaching_structure being the first
\* guarded operation included.
C17_SecondTeachingBlocked ==
    [][last'.op = "teaching_structure" =>
          \A o \in {last'.obj} :
             /\ last'.res = "ok"
                => LogHoldsMarker(files', objs[o].root, "teaching_structure")
             /\ <<objs[o].root, "teaching_structure">> \in completed
                => last'.res = "RuntimeError" /\ dirs' = dirs]_vars

\* C18: graders_list is called on an assessment, and a call made after a
\* graders_list call completed on that assessment is stopped by the guard
\* with the "already executed" RuntimeError, so the grader artifact is not
\* overwritten, whether or not the assessment was structured first.
C18_SecondGradersListBlocked ==
    [][last'.op = "graders_list" =>
          /\ asmt' # Null
          /\ <<asmt'.root, "graders_list">> \in completed
             => last'.res = "RuntimeError" /\ files' = files]_vars

\* C20: constructing an Assessment with the eight documented arguments
\* succeeds, and the object carries the owning unit's identifying fields:
\* code = module_code, leader = module_leader, year = module_year.
C20_ConstructorSucceeds ==
    [][last'.op \in {"Assessment.structure", "graders_list"} =>
          \A o \in {last'.obj} :
             /\ last'.res # "TypeError"
             /\ asmt' # Null
             /\ asmt'.code = objs[o].code
             /\ asmt'.leader = objs[o].leader
             /\ asmt'.year = objs[o].year]_vars

\* the position of the first name whose creation under root must fail: it
\* is on disk already or repeats an earlier name of the list; 0 when none
FirstFailing(d, f, root, names) ==
    LET failing == { k \in 1..Len(names) :
                       \/ Exists(d, f, root \o <<names[k]>>)
                       \/ \E j \in 1..(k - 1) : names[j] = names[k] }
    IN  IF failing = {} THEN 0
        ELSE CHOOSE k \in failing : \A m \in failing : k <= m

WeekFolders(weeks, topics) == [i \in 1..weeks |-> WeekFolder(i, topics)]

\* C19: no rollback: when creation of the k-th subdirectory fails during
\* structure or teaching_structure, the k-1 subdirectories created earlier in
\* the same call remain in place, the failure surfaces to the caller, and no
\* marker for the operation is written.
C19_NoRollback ==
    [][/\ last'.op = "structure" =>
            \A o \in {last'.obj} :
               /\ ~CheckMethodExecution(files, objs[o].root, "structure")
               /\ ~Exists(dirs, files, TargetRoot(o))
               => \A sub_dirs \in SubDirChoices :
                     LET k == FirstFailing(dirs, files, TargetRoot(o), sub_dirs)
                     IN  k > 0 /\ Structure(o, sub_dirs)
                         => /\ last'.res = "FileExistsError"
                            /\ \A j \in 1..(k - 1) : TargetRoot(o) \o <<sub_dirs[j]>> \in dirs'
                            /\ files' = files /\ recorded' = recorded
       /\ last'.op = "teaching_structure" =>
            \A o \in {last'.obj} :
               /\ ~CheckMethodExecution(files, objs[o].root, "teaching_structure")
               /\ \E p \in dirs \cup DOMAIN files : SubSeq(p, 1, Len(p) - 1) = MaterialDir(o)
               => \A weeks \in WeekChoices, topics \in TopicLists :
                     LET k == FirstFailing(dirs, files, MaterialDir(o), WeekFolders(weeks, topics))
                     IN  ValidWeeks(weeks, topics) /\ k > 0 /\ TeachingStructure(o, weeks, topics)
                         => /\ last'.res = "FileExistsError"
                            /\ \A j \in 1..(k - 1) :
                                  MaterialDir(o) \o <<WeekFolder(j, topics)>> \in dirs'
                            /\ files' = files /\ recorded' = recorded]_vars

\* a teaching_structure call that failed on its second week folder, left by
\* an earlier call, after creating its own first one, which is in place; and
\* a structure call that failed on its second subdirectory, the first one
\* being in place in the new unit directory, which holds no log
C19_Witness ==
    /\ last.op = "teaching_structure" /\ last.res = "FileExistsError"
    /\ Children(dirs, MaterialDir(last.obj))
         = { MaterialDir(last.obj) \o <<WeekFolder(1, TopicList(2))>>,
             MaterialDir(last.obj) \o <<WeekFolder(2, TopicList(2))>>,
             MaterialDir(last.obj) \o <<WeekFolder(1, AltTopicList(2))>> }
    /\ \A o \in Objs : ~LogHoldsMarker(files, objs[o].root, "teaching_structure")
    /\ \E o \in Objs :
          /\ Children(dirs, objs[o].root) = { objs[o].root \o << <<"A">> >> }
          /\ LogPath(objs[o].root) \notin DOMAIN files

\* the callers whose mkdir of the unit directory succeeded
Creators == { c \in Objs : thr[c].pc \in {"subdirs", "config", "info", "marker", "ok", "FileExistsError"} }

Finished == \A c \in Objs : thr[c].pc \in {"ok", "exists", "RuntimeError", "FileExistsError"}

\* C16: callers running structure concurrently for the same unit from the
\* same provisional root may all pass the guard, and the fail-if-exists
\* creation of the unit directory is the backstop: in every interleaving at
\* most one caller creates the unit directory, only that caller creates
\* anything in it, and when all have ended exactly one has created the
\* directory, its subdirectories (distinct names given) and the marker while
\* every other caller ended with the already-exists outcome.
C16_OneCreator ==
    /\ Cardinality(Creators) <= 1
    /\ Creators = {} => unitOf[1] \notin dirs
    /\ \A w \in Creators :
          Children(dirs, unitOf[1])
            \subseteq { unitOf[1] \o <<thr[w].sub_dirs[i]>> : i \in 1..Len(thr[w].sub_dirs) }
    /\ Finished =>
          \E w \in Objs :
             /\ Creators = {w}
             /\ \A c \in Objs \ {w} : thr[c].pc = "exists"
             /\ NoDuplicates(thr[w].sub_dirs)
                => /\ thr[w].pc = "ok"
                   /\ Children(dirs, unitOf[1])
                        = { unitOf[1] \o <<thr[w].sub_dirs[i]>> : i \in 1..Len(thr[w].sub_dirs) }
                   /\ LogHoldsMarker(files, unitOf[1], "structure")

\* all callers have ended; the one that lost had passed the guard before the
\* unit directory existed
C16_Witness ==
    /\ Finished
    /\ \E w \in Objs : thr[w].pc = "ok"
    /\ \E c \in Objs : thr[c].pc = "exists" /\ thr[c].sawNoUnit
    /\ LogHoldsMarker(files, unitOf[1], "structure")

\* C21: in the Module variant under src/src/Module the guard searches the
\* log file that structure writes: after a successful structure call the
\* guard answers True for 'structure' in the object's root, and a further
\* structure call through that object raises RuntimeError.
C21_VariantGuardSeesLog ==
    [][last'.op = "structure" =>
          \A o \in {last'.obj} :
             /\ last'.res = "ok" /\ rootHandler'.path = LogPath(objs'[o].root)
                => VariantCheckMethodExecution(files', objs'[o].root, "structure")
             /\ <<objs[o].root, "structure">> \in completed
                => last'.res = "RuntimeError"]_vars

\* the entered line is the sentinel: "q" in any case once trimmed
SentinelLine(line) == Lower(Strip(line)) = <<"q">>

\* the position of the first sentinel among the lines, 0 when there is none
FirstSentinel(lines) ==
    IF \A i \in 1..Len(lines) : ~SentinelLine(lines[i]) THEN 0
    ELSE CHOOSE i \in 1..Len(lines) :
            SentinelLine(lines[i]) /\ \A j \in 1..(i - 1) : ~SentinelLine(lines[j])

\* the paths entered on the first n lines that name existing files, in order
RECURSIVE ValidPaths(_, _)
ValidPaths(lines, n) ==
    IF n = 0 THEN <<>>
    ELSE LET path == ParsePath(Strip(lines[n]))
         IN  ValidPaths(lines, n - 1)
                \o (IF Resolve(path) \in DOMAIN files THEN <<path>> ELSE <<>>)

\* C22: console-mode gather_documents consumes the entered lines only up to
\* the first line that is "q" (in any case, once trimmed) and then returns
\* exactly the entered paths that name existing files, in entry order; a line
\* that names no file is rejected and the loop goes on without raising, and
\* the loop ends as soon as the sentinel is entered.
C22_GatherUpToSentinel ==
    \A o \in Objs :
       thr[o].pc # "ready" =>
          LET lines == thr[o].stdin
              first == FirstSentinel(lines)
          IN  /\ thr[o].pc \in {"input", "returned", "EOFError"}
              /\ thr[o].pc = "input"
                 => /\ \A i \in 1..thr[o].read : ~SentinelLine(lines[i])
                    /\ thr[o].document_paths = ValidPaths(lines, thr[o].read)
                    /\ thr[o].rejected + Len(thr[o].document_paths) = thr[o].read
              /\ thr[o].pc = "returned"
                 => /\ first > 0 /\ thr[o].read = first
                    /\ thr[o].document_paths = ValidPaths(lines, first - 1)
              /\ thr[o].pc = "EOFError" => first = 0
              /\ first > 0 => thr[o].read <= first

\* the loop returned on " Q " with a line left unread, after rejecting one
\* line and collecting the file entered with blanks around its path
C22_Witness ==
    \E o \in Objs :
       /\ thr[o].pc = "returned"
       /\ thr[o].read = 3 /\ Len(thr[o].stdin) = 4
       /\ thr[o].stdin[3] = <<" ", "Q", " ">>
       /\ thr[o].rejected = 1
       /\ thr[o].document_paths = << << <<"/">> >> \o DocA2 >>

\* the answer is exactly "y" once trimmed and lower-cased
ExactlyY(answer) ==
    answer \in { <<"y">>, <<"Y">>, <<" ", "y", " ">> }

\* C23: when copy_documents prompts, the batch proceeds only if the answer,
\* trimmed and lower-cased, is exactly "y"; every other answer, the empty
\* line and "yes" included, is a decline and nothing is copied.
C23_OnlyExactYProceeds ==
    [][last'.op = "copy_documents" /\ last'.prompts = 1 => \A o \in {last'.obj} :
        \A answer \in Answers :
          CopyDocumentsAnswer(o, answer)
          => /\ ExactlyY(answer) = (Lower(Strip(answer)) = <<"y">>)
             /\ IF ExactlyY(answer)
                THEN last'.res # "canceled"
                ELSE last'.res = "canceled" /\ files' = files]_vars

\* a batch that went ahead after the prompt and replaced the colliding file,
\* b.txt having been copied by another caller while this one waited
C23_Witness ==
    /\ last.op = "copy_documents" /\ last.prompts = 1 /\ last.res = "ok"
    /\ last.existing = << <<"a.txt">> >>
    /\ files[DocumentsDir(last.obj) \o << <<"a.txt">> >>] = <<"v2">>
    /\ DocumentsDir(last.obj) \o << <<"b.txt">> >> \in DOMAIN files
    /\ calls = 2

====
